---- MODULE Spec2Model ----
(***************************************************************************)
(* A model of the AIM backend's metric facade (execute_metric) for three   *)
(* metrics:                                                                *)
(*   m25  UIED segmentation (pass-through of a precomputed artifact),      *)
(*   m19  distinct RGB values per dynamic cluster (a ratio),               *)
(*   m30  MD-EAM attention predictor (per-call Keras model, six images).   *)
(* Each metric has its own specification (SpecM25, SpecM19, SpecM30) over  *)
(* the variables it owns; the other variables stay as Init left them.      *)
(***************************************************************************)
EXTENDS Integers, Sequences, FiniteSets, TLC

VARIABLES
    m25,        \* the last call of m25.execute_metric: its arguments and outcome
    m19,        \* the last call of m19.execute_metric: arguments, clusters, outcome
    pc,         \* m30: per in-flight call, the statement it has reached
    args,       \* m30: per call, the gui_image it was called with
    loaded_model, \* m30: per call, the local variable loaded_model (0: unbound)
    acquired,   \* m30: per call, the handle its xception_se_lstm() returned (0: none)
    stage,      \* m30: per call, the intermediate values computed so far
    outcome,    \* m30: per call, what the call returned or raised
    session,    \* m30: the Keras backend's process-wide session: live model handles
    preprocess, \* m30: the last run of execute_metric's preprocessing (_padding)
    postprocess, \* m30: the last run of _postprocess_predictions on one plane
    overlay,    \* m30: the last run of _heatmap_overlays on one image
    message,    \* the last URL message validated and serialised
    environ_options, \* server: a run of parse_environ_options
    server,     \* server: the run of main
    screenshots \* tools: a run of Screenshots.take

vars == <<m25, m19, pc, args, loaded_model, acquired, stage, outcome, session,
          preprocess, postprocess, overlay, message,
          environ_options, server, screenshots>>
varsM25 == <<m25>>
varsM19 == <<m19>>
varsM30 == <<pc, args, loaded_model, acquired, stage, outcome, session>>
varsTools == <<environ_options, server, screenshots>>
varsFn == <<preprocess, postprocess, overlay, message, varsTools>>

----------------------------------------------------------------------------
(* Arguments shared by every execute_metric.                               *)

\* aim.common.constants: desktop = 0, mobile = 1 (the docstrings' "gui_type").
GUI_TYPE_DESKTOP == 0
GUI_TYPE_MOBILE == 1
GuiTypes == {GUI_TYPE_DESKTOP, GUI_TYPE_MOBILE}

\* gui_image: a Base64 string; DecodablePNG are those base64.b64decode and
\* Image.open accept.
DecodablePNG == {"png_red_100x100", "png_gui"}
GuiImages == DecodablePNG \cup {"not_a_png"}

\* gui_url: Optional[HttpUrl].
GuiUrls == {"None", "http://example.org/"}

\* What a call did: it returned a list, or it raised.  "value" is the list
\* returned (empty when the call raised), "error" the exception's type.
Return(list) == [kind |-> "return", value |-> list, error |-> "-"]
Raise(exc) == [kind |-> "raise", value |-> <<>>, error |-> exc]
NoCall == [kind |-> "none", value |-> <<>>, error |-> "-"]
\* A call that ends in "return None" (or runs off the end of the function).
ReturnNone == [kind |-> "return_none", value |-> <<>>, error |-> "-"]

----------------------------------------------------------------------------
(* m25: UIED segmentation.                                                 *)

\* Base64 strings a precomputed artifact may carry.
B64Strings == {"iVBORw0KGgoA", "iVBORw0KGgoB", "iVBORw0KGgoC"}
SegmentKeys == {"img_b64", "compos"}

\* A dict is the set of its (key, value) pairs, at most one pair per key.
IsDict(d) == \A p \in d : \A q \in d : p[1] = q[1] => p = q
Dicts == {d \in SUBSET (SegmentKeys \X B64Strings) : IsDict(d)}
HasKey(d, k) == \E p \in d : p[1] = k
Get(d, k) == (CHOOSE p \in d : p[1] = k)[2]

\* gui_segments: Optional[Dict[str, Any]]; None is [isNone |-> TRUE].
None == [isNone |-> TRUE, dict |-> {}]
Some(d) == [isNone |-> FALSE, dict |-> d]
GuiSegments == {None} \cup {Some(d) : d \in Dicts}

\* Variant: the list carries gui_image instead of the stored string.
M25ReturnGuiImage(gui_image, gui_type, gui_segments, gui_url) ==
    IF gui_segments.isNone
    THEN Raise("ValueError")
    ELSE IF HasKey(gui_segments.dict, "img_b64")
         THEN Return(<<gui_image>>)
         ELSE Raise("KeyError")

\* Variant: without the None test the subscript None["img_b64"] raises TypeError.
M25NoNoneCheck(gui_image, gui_type, gui_segments, gui_url) ==
    IF gui_segments.isNone
    THEN Raise("TypeError")
    ELSE IF HasKey(gui_segments.dict, "img_b64")
         THEN Return(<<Get(gui_segments.dict, "img_b64")>>)
         ELSE Raise("KeyError")

\* Variant: the image is decoded on entry and must be a PNG.
M25DecodesGuiImage(gui_image, gui_type, gui_segments, gui_url) ==
    IF gui_image \notin DecodablePNG
    THEN Raise("UnidentifiedImageError")
    ELSE IF gui_segments.isNone
         THEN Raise("ValueError")
         ELSE IF HasKey(gui_segments.dict, "img_b64")
              THEN Return(<<Get(gui_segments.dict, "img_b64")>>)
              ELSE Raise("KeyError")

\* Metric.execute_metric, lines 102-110: the subscript gui_segments["img_b64"]
\* raises KeyError when the key is missing; None raises ValueError.
M25_execute_metric(gui_image, gui_type, gui_segments, gui_url) ==
    IF ~gui_segments.isNone
    THEN IF HasKey(gui_segments.dict, "img_b64")
         THEN Return(<<Get(gui_segments.dict, "img_b64")>>)
         ELSE Raise("KeyError")
    ELSE Raise("ValueError")

\* Variant: the image is decoded first, as m19 and m30 do on entry.
M25StepsDecodeFirst(gui_image, gui_type, gui_segments, gui_url) ==
    <<"decode gui_image">>
    \o (IF gui_image \notin DecodablePNG
        THEN <<"raise UnidentifiedImageError">>
        ELSE <<"test gui_segments">>
             \o (IF gui_segments.isNone THEN <<"raise ValueError">>
                 ELSE <<"subscript gui_segments", "return">>))

\* The statements a call of execute_metric runs, in order (lines 103-110):
\* the test "gui_segments is not None" at 103 is the first; then either the
\* subscript at 104 and the return at 108-110, or the raise at 106.  No
\* statement reads gui_image, gui_type or gui_url.
M25Steps(gui_image, gui_type, gui_segments, gui_url) ==
    <<"test gui_segments">>
    \o (IF ~gui_segments.isNone
        THEN <<"subscript gui_segments">>
             \o (IF HasKey(gui_segments.dict, "img_b64")
                 THEN <<"return">> ELSE <<"raise KeyError">>)
        ELSE <<"raise ValueError">>)

M25Call ==
    \E gui_image \in GuiImages, gui_type \in GuiTypes,
       gui_segments \in GuiSegments, gui_url \in GuiUrls :
        /\ m25' = [gui_image |-> gui_image, gui_type |-> gui_type,
                   gui_segments |-> gui_segments, gui_url |-> gui_url,
                   steps |-> M25Steps(gui_image, gui_type,
                                      gui_segments, gui_url),
                   out |-> M25_execute_metric(gui_image, gui_type,
                                              gui_segments, gui_url)]
        /\ UNCHANGED <<m19, varsM30, varsFn>>

InitM25 ==
    m25 = [gui_image |-> "png_gui", gui_type |-> GUI_TYPE_DESKTOP,
           gui_segments |-> None, gui_url |-> "None", steps |-> <<>>,
           out |-> NoCall]

----------------------------------------------------------------------------
(* m19: distinct RGB values per dynamic cluster.                           *)

MaxClusters == 3    \* clusters the engine returns for one image
MaxDistinct == 2    \* distinct RGB values one cluster absorbs

\* A cluster record of m12.get_dynamic_clusters: positions 0-2 (0-based) are
\* the representative colour, position 3 the cluster's pixel count, position
\* 4 its count of distinct RGB values.  execute_metric reads position 4
\* only; the pixel count is kept above it.  A Python index x is the TLA+
\* index x + 1.
ClusterRecords == {<<255, 0, 0, d + 1, d>> : d \in 0..MaxDistinct}

RECURSIVE SeqsUpTo(_, _)
SeqsUpTo(S, n) ==
    IF n = 0 THEN {<<>>}
    ELSE LET shorter == SeqsUpTo(S, n - 1)
         IN shorter \cup {Append(s, x) : s \in {t \in shorter : Len(t) = n - 1}, x \in S}

\* The lists m12.get_dynamic_clusters(img_rgb, gui_type) can return.
ClusterLists == SeqsUpTo(ClusterRecords, MaxClusters)

\* A float that is the quotient of two integers, kept exact: <<n, d>> in
\* lowest terms with d > 0.  float(0) is <<0, 1>>.
RECURSIVE Gcd(_, _)
Gcd(a, b) == IF b = 0 THEN a ELSE Gcd(b, a % b)
Abs(x) == IF x < 0 THEN -x ELSE x
Float(n, d) ==
    LET g == Gcd(Abs(n), Abs(d))
        s == IF d < 0 THEN -1 ELSE 1
    IN <<(s * n) \div g, (s * d) \div g>>

\* Lines 117-120: num_distinct_rgb += center_of_clusters[x][4] over all x.
RECURSIVE SumAt(_, _)
SumAt(clusters, pos) ==
    IF clusters = <<>> THEN 0
    ELSE Head(clusters)[pos + 1] + SumAt(Tail(clusters), pos)

\* Variant of the accumulation: -= in place of +=.
RECURSIVE DiffAt(_, _)
DiffAt(clusters, pos) ==
    IF clusters = <<>> THEN 0
    ELSE DiffAt(Tail(clusters), pos) - Head(clusters)[pos + 1]

\* Variant: position 3 (the pixel count) is summed.
NumDistinctRgbPixelCount(center_of_clusters) == SumAt(center_of_clusters, 3)

NumDistinctRgbSubtract(center_of_clusters) == DiffAt(center_of_clusters, 4)

NumDistinctRgb(center_of_clusters) == SumAt(center_of_clusters, 4)

\* Variant: the division without its guard; a true division by zero raises
\* ZeroDivisionError.
RatioNoGuard(num_distinct_rgb, count_dynamic_cluster) ==
    IF count_dynamic_cluster = 0
    THEN Raise("ZeroDivisionError")
    ELSE Return(<<Float(num_distinct_rgb, count_dynamic_cluster)>>)

\* Variant: no clusters, no list.
RatioNoneWhenEmpty(num_distinct_rgb, count_dynamic_cluster) ==
    IF count_dynamic_cluster # 0
    THEN Return(<<Float(num_distinct_rgb, count_dynamic_cluster)>>)
    ELSE ReturnNone

\* Lines 122-131: float(0) unless count_dynamic_cluster != 0.
Ratio(num_distinct_rgb, count_dynamic_cluster) ==
    IF count_dynamic_cluster # 0
    THEN Return(<<Float(num_distinct_rgb, count_dynamic_cluster)>>)
    ELSE Return(<<Float(0, 1)>>)

\* Lines 105-131.  Image.open raises on a string that is no PNG; the engine's
\* answer center_of_clusters is what m12 returned for (img_rgb, gui_type).
M19_execute_metric(gui_image, gui_type, center_of_clusters) ==
    IF gui_image \notin DecodablePNG
    THEN Raise("UnidentifiedImageError")
    ELSE Ratio(NumDistinctRgb(center_of_clusters), Len(center_of_clusters))

\* Variant: the engine is called with its default type.
M19EngineCallDefaultType(gui_image, gui_type) ==
    [called |-> gui_image \in DecodablePNG, gui_type |-> GUI_TYPE_DESKTOP]

\* Line 112: m12.get_dynamic_clusters(img_rgb, gui_type), reached when the
\* image was decoded; gui_type is the argument of execute_metric.
M19EngineCall(gui_image, gui_type) ==
    [called |-> gui_image \in DecodablePNG,
     gui_type |-> IF gui_image \in DecodablePNG THEN gui_type
                  ELSE GUI_TYPE_DESKTOP]

M19Call ==
    \E gui_image \in GuiImages, gui_type \in GuiTypes,
       center_of_clusters \in ClusterLists :
        /\ m19' = [gui_image |-> gui_image, gui_type |-> gui_type,
                   clusters |-> IF gui_image \in DecodablePNG
                                THEN center_of_clusters ELSE <<>>,
                   engine |-> M19EngineCall(gui_image, gui_type),
                   out |-> M19_execute_metric(gui_image, gui_type,
                                              center_of_clusters)]
        /\ UNCHANGED <<m25, varsM30, varsFn>>

InitM19 ==
    m19 = [gui_image |-> "png_gui", gui_type |-> GUI_TYPE_DESKTOP,
           clusters |-> <<>>,
           engine |-> [called |-> FALSE, gui_type |-> GUI_TYPE_DESKTOP],
           out |-> NoCall]

----------------------------------------------------------------------------
(* m30: MD-EAM attention predictor.  A call runs execute_metric statement  *)
(* by statement, so that calls made from several threads interleave.       *)

MaxCalls == 2       \* calls that can be in flight at once
MaxHandles == 3     \* model objects alive in the process at once

Calls == 1..MaxCalls
Handles == 1..MaxHandles

_HEATMAP_STYLE == "viridis"
TimeSlices == <<0, 1, 2>>       \* 0.5 s, 3 s, 5 s

NoStage == [heatmaps |-> <<>>, overlays |-> <<>>, encoded |-> <<>>]

\* loaded_model.predict(img_batch)[0][0, n_time, :, :, 0]: the plane the
\* model emits for the image at one time slice.
Plane(gui_image, n_time) == [img |-> gui_image, slice |-> n_time]

\* _postprocess_predictions(original_images, predictions, n_time)[0]: the
\* plane resized back to the original image; blur and normalize are off.
PostprocessPredictions(gui_image, n_time) ==
    LET prediction == Plane(gui_image, n_time)
    IN [img |-> prediction.img, slice |-> prediction.slice, resized |-> TRUE]

\* _heatmap_overlays(original_images, heatmaps, colmap)[0].
HeatmapOverlay(gui_image, heatmap, colmap) ==
    [kind |-> "overlay", img |-> gui_image, slice |-> heatmap.slice,
     colmap |-> colmap]

\* Image.fromarray((cm.get_cmap("viridis")(heatmap) * 255).astype("uint8")).
HeatmapImage(heatmap) ==
    [kind |-> "heatmap", img |-> heatmap.img, slice |-> heatmap.slice,
     colmap |-> "viridis"]

\* image_utils.to_png_image_base64(image).
ToPngImageBase64(image) == [b64png |-> image]

\* Lines 436-445: the three slices, in the order 0, 1, 2.
HeatmapBatches(gui_image) ==
    [k \in 1..3 |-> PostprocessPredictions(gui_image, TimeSlices[k])]

\* Variant: colmap is left at the default of _heatmap_overlays (line 318).
OverlayBatchesDefaultColmap(gui_image, heatmaps) ==
    [k \in 1..3 |-> HeatmapOverlay(gui_image, heatmaps[k], "hot")]

\* Lines 447-456: each call passes colmap=cls._HEATMAP_STYLE.
OverlayBatches(gui_image, heatmaps) ==
    [k \in 1..3 |-> HeatmapOverlay(gui_image, heatmaps[k], _HEATMAP_STYLE)]

\* Lines 474-509: images 0-2 are the heatmaps, 3-5 the overlays.
EncodedImages(heatmaps, overlays) ==
    [k \in 1..6 |-> IF k <= 3
                    THEN ToPngImageBase64(HeatmapImage(heatmaps[k]))
                    ELSE ToPngImageBase64(overlays[k - 3])]

\* Variant: heatmap and overlay of each slice side by side.
MeasuresPairwise(encoded) ==
    <<encoded[1], encoded[4], encoded[2], encoded[5], encoded[3], encoded[6]>>

\* Variant: the heatmaps alone.
MeasuresHeatmapsOnly(encoded) == <<encoded[1], encoded[2], encoded[3]>>

\* Lines 517-524: the list returned.
Measures(encoded) ==
    <<encoded[1], encoded[2], encoded[3], encoded[4], encoded[5], encoded[6]>>

\* Variant: the session is left as it is.
ClearSessionKeep(live) == live

\* K.clear_session(): the backend's process-wide state is reset; every
\* model built in it, by whichever call, is gone with it.
K_clear_session(live) == {}

\* Handles no call holds or has acquired, and the session does not hold.
FreeHandles ==
    {h \in Handles : /\ h \notin session
                     /\ \A c \in Calls : loaded_model[c] # h /\ acquired[c] # h}

InFlight(c) == pc[c] \notin {"idle", "returned", "raised"}

\* execute_metric is entered.
M30Begin(c) ==
    /\ ~InFlight(c)
    /\ \E gui_image \in GuiImages :
        args' = [args EXCEPT ![c] = gui_image]
    /\ pc' = [pc EXCEPT ![c] = "preprocess"]
    /\ loaded_model' = [loaded_model EXCEPT ![c] = 0]
    /\ acquired' = [acquired EXCEPT ![c] = 0]
    /\ stage' = [stage EXCEPT ![c] = NoStage]
    /\ outcome' = [outcome EXCEPT ![c] = NoCall]
    /\ UNCHANGED <<session, m25, m19, varsFn>>

\* Lines 407-420: decode, convert to RGB, pad to the model's input size.
M30Preprocess(c) ==
    /\ pc[c] = "preprocess"
    /\ IF args[c] \in DecodablePNG
       THEN /\ pc' = [pc EXCEPT ![c] = "load_model"]
            /\ UNCHANGED outcome
       ELSE /\ pc' = [pc EXCEPT ![c] = "raised"]
            /\ outcome' = [outcome EXCEPT ![c] = Raise("UnidentifiedImageError")]
    /\ UNCHANGED <<args, loaded_model, acquired, stage, session, m25, m19, varsFn>>

\* Lines 427-429: loaded_model = xception_se_lstm(...), a new model built in
\* the backend's session.
M30LoadModel(c) ==
    /\ pc[c] = "load_model"
    /\ FreeHandles # {}
    /\ LET h == CHOOSE x \in FreeHandles : \A y \in FreeHandles : x <= y IN
        /\ loaded_model' = [loaded_model EXCEPT ![c] = h]
        /\ acquired' = [acquired EXCEPT ![c] = h]
        /\ session' = session \cup {h}
    /\ pc' = [pc EXCEPT ![c] = "load_weights"]
    /\ UNCHANGED <<args, stage, outcome, m25, m19, varsFn>>

\* A statement that uses the model raises when the session the model was
\* built in has been cleared.
M30UseModel(c, next) ==
    IF loaded_model[c] \in session
    THEN /\ pc' = [pc EXCEPT ![c] = next]
         /\ UNCHANGED <<outcome, loaded_model>>
    ELSE /\ pc' = [pc EXCEPT ![c] = "raised"]
         /\ outcome' = [outcome EXCEPT ![c] = Raise("ValueError")]
         /\ loaded_model' = [loaded_model EXCEPT ![c] = 0]

\* Line 431: loaded_model.load_weights(model_filepath).
M30LoadWeights(c) ==
    /\ pc[c] = "load_weights"
    /\ M30UseModel(c, "predict")
    /\ UNCHANGED <<args, acquired, stage, session, m25, m19, varsFn>>

\* Line 434: predictions = loaded_model.predict(img_batch).
M30Predict(c) ==
    /\ pc[c] = "predict"
    /\ M30UseModel(c, "render")
    /\ UNCHANGED <<args, acquired, stage, session, m25, m19, varsFn>>

\* A call of _postprocess_predictions as execute_metric writes it: the
\* result goes to heatmap_batch<batch>; blur and normalize are not passed
\* and keep their defaults (lines 241-242).
PostprocessStep(batch, n_time) ==
    [op |-> "postprocess", batch |-> batch, n_time |-> n_time,
     blur |-> FALSE, normalize |-> FALSE]

\* A call of _heatmap_overlays: heatmap_overlay_batch<batch> is made from
\* heatmap_batch<from>.
OverlayStep(batch, from) ==
    [op |-> "overlay", batch |-> batch, from |-> from,
     colmap |-> _HEATMAP_STYLE]

\* Variant: each slice's overlay is built as soon as the slice is there.
RenderStepsSliceBySlice ==
    <<PostprocessStep(0, 0), OverlayStep(0, 0), PostprocessStep(1, 1),
      OverlayStep(1, 1), PostprocessStep(2, 2), OverlayStep(2, 2)>>

\* Variant: a fourth call, for a slice the model does not emit.
RenderStepsFourSlices ==
    <<PostprocessStep(0, 0), PostprocessStep(1, 1), PostprocessStep(2, 2),
      PostprocessStep(2, 3),
      OverlayStep(0, 0), OverlayStep(1, 1), OverlayStep(2, 2)>>

\* The calls of lines 437-456 in the order of the statements.
RenderSteps ==
    <<PostprocessStep(0, 0), PostprocessStep(1, 1), PostprocessStep(2, 2),
      OverlayStep(0, 0), OverlayStep(1, 1), OverlayStep(2, 2)>>

\* Lines 436-509: postprocess the three slices, build the three overlays
\* (the calls of RenderSteps, in that order), render and encode the six
\* images.  Nothing here is shared between calls.
M30Render(c) ==
    /\ pc[c] = "render"
    /\ LET heatmaps == HeatmapBatches(args[c])
           overlays == OverlayBatches(args[c], heatmaps)
       IN stage' = [stage EXCEPT ![c] =
                       [heatmaps |-> heatmaps, overlays |-> overlays,
                        encoded |-> EncodedImages(heatmaps, overlays)]]
    /\ pc' = [pc EXCEPT ![c] = "cleanup"]
    /\ UNCHANGED <<args, loaded_model, acquired, outcome, session, m25, m19, varsFn>>

\* Lines 511-515: del loaded_model; K.clear_session(); gc.collect().
M30Cleanup(c) ==
    /\ pc[c] = "cleanup"
    /\ loaded_model' = [loaded_model EXCEPT ![c] = 0]
    /\ session' = K_clear_session(session)
    /\ pc' = [pc EXCEPT ![c] = "return"]
    /\ UNCHANGED <<args, acquired, stage, outcome, m25, m19, varsFn>>

\* Lines 517-524.
M30Return(c) ==
    /\ pc[c] = "return"
    /\ outcome' = [outcome EXCEPT ![c] = Return(Measures(stage[c].encoded))]
    /\ pc' = [pc EXCEPT ![c] = "returned"]
    /\ UNCHANGED <<args, loaded_model, acquired, stage, session, m25, m19, varsFn>>

\* No statement between lines 427 and 515 is inside a try block: when one
\* raises (the weights file cannot be read, the backend or numpy runs out of
\* memory), the exception leaves execute_metric at once, the frame's local
\* loaded_model is dropped and lines 511-515 are not run.
M30Raise(c) ==
    /\ pc[c] \in {"load_weights", "predict", "render"}
    /\ outcome' = [outcome EXCEPT ![c] =
                    Raise(IF pc[c] = "load_weights" THEN "OSError" ELSE "MemoryError")]
    /\ loaded_model' = [loaded_model EXCEPT ![c] = 0]
    /\ pc' = [pc EXCEPT ![c] = "raised"]
    /\ UNCHANGED <<args, acquired, stage, session, m25, m19, varsFn>>

InitM30 ==
    /\ pc = [c \in Calls |-> "idle"]
    /\ args = [c \in Calls |-> "png_gui"]
    /\ loaded_model = [c \in Calls |-> 0]
    /\ acquired = [c \in Calls |-> 0]
    /\ stage = [c \in Calls |-> NoStage]
    /\ outcome = [c \in Calls |-> NoCall]
    /\ session = {}

----------------------------------------------------------------------------
(* m30: _padding, the letterbox that brings an image to the model's input  *)
(* size, as execute_metric runs it on the decoded image (lines 407-420).   *)

_SHAPE_R == 240     \* input shape (rows) of the model
_SHAPE_C == 320     \* input shape (columns) of the model

MaxRows == 242      \* rows of the images submitted
MaxCols == 322      \* columns of the images submitted

\* What a run of _padding yields: the array returned (kind "array") or the
\* exception raised.  "scaled" is the size (rows, columns) the image is resized
\* to, "new" the size of the window of img_padded assigned to (new_rows or
\* new_cols after its clamp, and the whole other axis), "offset" the window's
\* first row and column, "resampled" whether the resize changed the image,
\* "shape" the shape of the array returned.
NoPadding ==
    [kind |-> "none", error |-> "-", scaled |-> <<0, 0>>, new |-> <<0, 0>>,
     offset |-> <<0, 0>>, resampled |-> FALSE, shape |-> <<0, 0, 0>>]

\* Variant: the rates as floor quotients (the "/" of Python 2).
RowsRateGreaterFloor(rows, cols) == rows \div _SHAPE_R > cols \div _SHAPE_C

\* Lines 186-189: rows_rate > cols_rate, with rows_rate = rows / _SHAPE_R
\* and cols_rate = cols / _SHAPE_C; the quotients are compared exactly.
RowsRateGreater(rows, cols) == rows * _SHAPE_C > cols * _SHAPE_R

\* Variant: the row target in place of the column target.
ScaledRowsWrongTarget(rows, cols) == (rows * _SHAPE_R) \div cols

\* Lines 190-192 and 211-213: the floor-scaled side.
ScaledCols(rows, cols) == (cols * _SHAPE_R) \div rows
ScaledRows(rows, cols) == (rows * _SHAPE_C) \div cols

\* Lines 202-203 and 223-224: the clamp of new_cols and of new_rows.
Clamp(new, target) == IF new > target THEN target ELSE new

\* Lines 206-207 and 227-228: the first index of the window assigned to.
PasteOffset(target, new) == (target - new) \div 2

\* Lines 198-200 and 219-221: Image.resize(size) raises ValueError ("height and width must be > 0")
\* for an empty size.
ResizeRaises(size) == size[1] < 1 \/ size[2] < 1

\* Lines 176-233.  The assignment into the window raises ValueError when
\* the resized image does not have the window's shape.
Padding(rows, cols) ==
    LET pad_cols == RowsRateGreater(rows, cols)
        scaled == IF pad_cols THEN <<_SHAPE_R, ScaledCols(rows, cols)>>
                  ELSE <<ScaledRows(rows, cols), _SHAPE_C>>
        new == IF pad_cols THEN <<_SHAPE_R, Clamp(scaled[2], _SHAPE_C)>>
               ELSE <<Clamp(scaled[1], _SHAPE_R), _SHAPE_C>>
        offset == IF pad_cols THEN <<0, PasteOffset(_SHAPE_C, new[2])>>
                  ELSE <<PasteOffset(_SHAPE_R, new[1]), 0>>
    IN IF ResizeRaises(scaled)
       THEN [kind |-> "raise", error |-> "ValueError", scaled |-> scaled,
             new |-> <<0, 0>>, offset |-> <<0, 0>>, resampled |-> FALSE,
             shape |-> <<0, 0, 0>>]
       ELSE [kind |-> IF new = scaled THEN "array" ELSE "raise",
             error |-> IF new = scaled THEN "-" ELSE "ValueError",
             scaled |-> scaled, new |-> new, offset |-> offset,
             resampled |-> scaled # <<rows, cols>>,
             shape |-> IF new = scaled THEN <<_SHAPE_R, _SHAPE_C, 3>>
                       ELSE <<0, 0, 0>>]

\* Variant: a portrait canvas for mobile GUIs.
PreprocessImagesByType(gui_type, rows, cols) ==
    IF gui_type = GUI_TYPE_MOBILE
    THEN [Padding(cols, rows) EXCEPT !.shape = <<_SHAPE_C, _SHAPE_R, 3>>]
    ELSE Padding(rows, cols)

\* execute_metric, lines 407-420: the decoded RGB image goes through
\* _preprocess_images (lines 109-160), which pads it; gui_type is not
\* passed on.  (The channel means subtracted at lines 156-158 do not touch
\* the geometry.)
PreprocessImages(gui_type, rows, cols) == Padding(rows, cols)

\* execute_metric is called on an image of rows x cols pixels.
Preprocess ==
    /\ preprocess.out.kind = "none"
    /\ preprocess' = [preprocess EXCEPT !.out =
            PreprocessImages(preprocess.gui_type, preprocess.rows,
                             preprocess.cols)]
    /\ UNCHANGED <<m25, m19, varsM30, postprocess, overlay, message, varsTools>>

\* The same image is submitted again under the other GUI type.
PreprocessOtherType ==
    /\ preprocess.out.kind # "none"
    /\ \E gui_type \in GuiTypes \ {preprocess.gui_type} :
        preprocess' = [preprocess EXCEPT
            !.gui_type = gui_type,
            !.out = PreprocessImages(gui_type, preprocess.rows,
                                     preprocess.cols)]
    /\ UNCHANGED <<m25, m19, varsM30, postprocess, overlay, message, varsTools>>

PreprocessInput(gui_type, rows, cols) ==
    [gui_type |-> gui_type, rows |-> rows, cols |-> cols, out |-> NoPadding]

InitPreprocess ==
    preprocess = PreprocessInput(GUI_TYPE_DESKTOP, _SHAPE_R, _SHAPE_C)

\* Any image of at least one pixel, up to a little above the model's size.
AnyImage ==
    preprocess \in {PreprocessInput(gui_type, rows, cols) :
                       gui_type \in GuiTypes, rows \in 1..MaxRows,
                       cols \in 1..MaxCols}

\* The sizes (rows, columns) of some screenshots: a small square image, a
\* desktop page and a mobile page.
ScreenshotShapes == {<<100, 100>>, <<800, 1280>>, <<1136, 640>>}

AnyScreenshot ==
    preprocess \in {PreprocessInput(gui_type, shape[1], shape[2]) :
                       gui_type \in GuiTypes, shape \in ScreenshotShapes}

----------------------------------------------------------------------------
(* m30: _postprocess_predictions, which brings the plane the model emits   *)
(* back to the size of the original image.                                 *)

MaxSide == 12       \* width and height of the original image
MaxPlane == 8       \* rows and columns of the plane the model emits

MaxNTime == 3       \* the largest n_time a caller may pass

NoHeatmap ==
    [kind |-> "none", error |-> "-", resized |-> <<0, 0>>,
     offset |-> <<0, 0>>, shape |-> <<0, 0>>]

\* Variant: only the upper end is asserted.
NTimeAssertedUpperOnly(n_time) == n_time <= 2

\* Line 261: assert n_time == 0 or n_time == 1 or n_time == 2.
NTimeAsserted(n_time) == n_time = 0 \/ n_time = 1 \/ n_time = 2

\* Variant: the comparison the other way round.
CropColsReversed(width, height, p_rows, p_cols) ==
    height * p_cols < width * p_rows

\* Lines 269-270 and 278: rows_rate > cols_rate, with rows_rate = height /
\* prediction_shape[0] and cols_rate = width / prediction_shape[1].
CropCols(width, height, p_rows, p_cols) == height * p_cols > width * p_rows

\* The number of elements of a[lo:hi] for an axis of n elements: Python
\* counts a negative index from the end and cuts an index off at the ends.
SliceIndex(i, n) ==
    IF i < 0 THEN (IF i + n < 0 THEN 0 ELSE i + n)
    ELSE (IF i > n THEN n ELSE i)
SliceLen(lo, hi, n) ==
    IF SliceIndex(hi, n) > SliceIndex(lo, n)
    THEN SliceIndex(hi, n) - SliceIndex(lo, n) ELSE 0

\* Lines 266-307 for one image and its plane: "resized" is the shape (rows,
\* columns) of the plane after skit.resize, "offset" the first row and
\* column of the crop, "shape" the shape of the heatmap appended.
PostprocessShape(width, height, p_rows, p_cols) ==
    LET crop_cols == CropCols(width, height, p_rows, p_cols)
        resized == IF crop_cols THEN <<height, (p_cols * height) \div p_rows>>
                   ELSE <<(p_rows * width) \div p_cols, width>>
        offset == IF crop_cols THEN <<0, (resized[2] - width) \div 2>>
                  ELSE <<(resized[1] - height) \div 2, 0>>
    IN [kind |-> "array", error |-> "-", resized |-> resized,
        offset |-> offset,
        shape |-> IF crop_cols
                  THEN <<resized[1],
                         SliceLen(offset[2], offset[2] + width, resized[2])>>
                  ELSE <<SliceLen(offset[1], offset[1] + height, resized[1]),
                         resized[2]>>]

\* Lines 259-311 for one image: the assertion of line 261 comes before
\* the loop, so that a failed assertion leaves heatmap_batch empty and
\* nothing is returned.
PostprocessOne(n_time, width, height, p_rows, p_cols) ==
    IF ~NTimeAsserted(n_time)
    THEN [kind |-> "raise", error |-> "AssertionError", resized |-> <<0, 0>>,
          offset |-> <<0, 0>>, shape |-> <<0, 0>>]
    ELSE PostprocessShape(width, height, p_rows, p_cols)

\* _postprocess_predictions runs on one original image and its plane.
Postprocess ==
    /\ postprocess.out.kind = "none"
    /\ postprocess' = [postprocess EXCEPT !.out =
            PostprocessOne(postprocess.n_time,
                           postprocess.width, postprocess.height,
                           postprocess.p_rows, postprocess.p_cols)]
    /\ UNCHANGED <<m25, m19, varsM30, preprocess, overlay, message, varsTools>>

PostprocessInput(n_time, width, height, p_rows, p_cols) ==
    [n_time |-> n_time, width |-> width, height |-> height,
     p_rows |-> p_rows, p_cols |-> p_cols, out |-> NoHeatmap]

InitPostprocess == postprocess = PostprocessInput(0, 1, 1, 1, 1)

\* Any original image and any plane, each of at least one pixel.
AnyPlane ==
    postprocess \in {PostprocessInput(n_time, width, height, p_rows, p_cols) :
                        n_time \in {TimeSlices[k] : k \in 1..3},
                        width \in 1..MaxSide, height \in 1..MaxSide,
                        p_rows \in 1..MaxPlane, p_cols \in 1..MaxPlane}

\* Any n_time a caller may pass, the three slices and others, with a small
\* image and plane.
SmallSides == {1, 2, 5}
AnyNTime ==
    postprocess \in {PostprocessInput(n_time, width, height, p_rows, p_cols) :
                        n_time \in -1..MaxNTime,
                        width \in SmallSides, height \in SmallSides,
                        p_rows \in SmallSides, p_cols \in SmallSides}

----------------------------------------------------------------------------
(* m30: _heatmap_overlays, which blends a heatmap into the original image. *)
(* An image is the sequence of its pixels, a pixel the triple of its       *)
(* channels; a heatmap holds one intensity per pixel.                      *)

MaxPixels == 3      \* pixels of the image and of its heatmap
MaxHeat == 2        \* the largest intensity of a heatmap

Channels == 1..3
Colours == {<<200, 30, 120>>, <<255, 255, 255>>}
Colmaps == {"viridis", "hot"}

\* cm.get_cmap(colmap)(x)[0:3] * 255.0 at x = 0 and at x = 1 (matplotlib's
\* tables, to the integer below); in between the ramp is taken as linear.
ColormapLow(colmap) ==
    IF colmap = "viridis" THEN <<68, 1, 84>> ELSE <<10, 0, 0>>
ColormapHigh(colmap) ==
    IF colmap = "viridis" THEN <<253, 231, 36>> ELSE <<255, 255, 255>>

\* A float of heatmap_norm: the quotient n / d of the subtraction and the
\* range, or nan (the quotient 0 / 0.0 of numpy).
NaN == [nan |-> TRUE, n |-> 0, d |-> 1]
Quotient(n, d) == IF d = 0 THEN NaN ELSE [nan |-> FALSE, n |-> n, d |-> d]

SeqMin(seq) == CHOOSE x \in {seq[i] : i \in 1..Len(seq)} :
                    \A i \in 1..Len(seq) : x <= seq[i]
SeqMax(seq) == CHOOSE x \in {seq[i] : i \in 1..Len(seq)} :
                    \A i \in 1..Len(seq) : x >= seq[i]

\* Lines 336-338: (heatmap - np.min(heatmap)) / float(max - min).
HeatmapNorm(heatmap) ==
    [i \in 1..Len(heatmap) |->
        Quotient(heatmap[i] - SeqMin(heatmap), SeqMax(heatmap) - SeqMin(heatmap))]

\* Variant: one blending weight of 1/2 for every pixel.
HeatmapRepHalf(heatmap_norm) ==
    [i \in 1..Len(heatmap_norm) |->
        [ch \in Channels |-> [nan |-> FALSE, n |-> 1, d |-> 2]]]

\* Lines 341-343: np.repeat(heatmap_norm[:, :, np.newaxis], 3, axis=2).
HeatmapRep(heatmap_norm) ==
    [i \in 1..Len(heatmap_norm) |-> [ch \in Channels |-> heatmap_norm[i]]]

\* Line 339 and the factor 255.0 of line 346, for one pixel and channel:
\* the colour of the ramp at x, as a quotient over the denominator of x.
Colormap255(colmap, x, ch) ==
    ColormapLow(colmap)[ch] * x.d
    + (ColormapHigh(colmap)[ch] - ColormapLow(colmap)[ch]) * x.n

\* Lines 344-346 for one pixel and channel: cm * 255.0 * alpha + im * (1 -
\* alpha), stored into the uint8 array res_final, which cuts the fraction
\* off.  x is the pixel's heatmap_norm (the ramp gives its colour for
\* masked values, 0, to a nan).  What the store makes of a nan is not
\* defined; nan_cast is what this build makes of it.
Blend(colmap, ch, x, alpha, im, nan_cast) ==
    IF alpha.nan THEN nan_cast
    ELSE IF x.nan THEN (im * (alpha.d - alpha.n)) \div alpha.d
    ELSE (Colormap255(colmap, x, ch) * alpha.n
          + im * (alpha.d - alpha.n) * x.d) \div (x.d * alpha.d)

NanCasts == {0, 255}

NoOverlay == [kind |-> "none", alpha |-> <<>>, pixels |-> <<>>]

\* Lines 331-349 for one image: "alpha" is heatmap_rep, "pixels" res_final.
OverlayPixels(image, heatmap, colmap, nan_cast) ==
    LET heatmap_norm == HeatmapNorm(heatmap)
        heatmap_rep == HeatmapRep(heatmap_norm)
    IN [kind |-> "array",
        alpha |-> heatmap_rep,
        pixels |-> [i \in 1..Len(image) |-> [ch \in Channels |->
                        Blend(colmap, ch, heatmap_norm[i], heatmap_rep[i][ch],
                              image[i][ch], nan_cast)]]]

\* _heatmap_overlays runs on one image and its heatmap.
Overlay ==
    /\ overlay.out.kind = "none"
    /\ \E nan_cast \in NanCasts :
        overlay' = [overlay EXCEPT !.out =
            OverlayPixels(overlay.image, overlay.heatmap, overlay.colmap,
                          nan_cast)]
    /\ UNCHANGED <<m25, m19, varsM30, preprocess, postprocess, message, varsTools>>

OverlayInput(image, heatmap, colmap) ==
    [image |-> image, heatmap |-> heatmap, colmap |-> colmap,
     out |-> NoOverlay]

InitOverlay ==
    overlay = OverlayInput(<<<<255, 255, 255>>>>, <<0>>, _HEATMAP_STYLE)

SeqsOfLen(S, n) == {s \in SeqsUpTo(S, n) : Len(s) = n}

\* Any image of 1..MaxPixels pixels with any heatmap of its size.
AnyHeatmap ==
    overlay \in UNION {{OverlayInput(image, heatmap, colmap) :
                            image \in SeqsOfLen(Colours, n),
                            heatmap \in SeqsOfLen(0..MaxHeat, n),
                            colmap \in Colmaps} : n \in 1..MaxPixels}

----------------------------------------------------------------------------
(* The message model: MessageURL(value) validates a request and          *)
(* jsonable_encoder turns the model into the dictionary sent on.           *)

MetricIds == {"cp1", "cp2", "cp3", "cp4"}
Urls == {"http://aalto.fi", "https://example.org/gui"}

\* The metrics of a request: a dict from metric ids to booleans.
MetricMaps == {d \in SUBSET (MetricIds \X BOOLEAN) : IsDict(d)}

\* A request for the metrics of a web page.
UrlMessage(url, metrics) ==
    [type |-> "execute", input |-> "url", url |-> url, data |-> "None",
     filename |-> "None", metrics |-> metrics]

\* Lines 37-47 and 72-81 of the test.
input_value_message_url ==
    UrlMessage("http://aalto.fi", {<<"cp1", FALSE>>, <<"cp2", TRUE>>})
expected_result_message_url ==
    UrlMessage("http://aalto.fi", {<<"cp2", TRUE>>})

\* Variant: the metrics as they came.
SelectedMetricsAll(metrics) == metrics

\* The model keeps the metrics that are switched on.
SelectedMetrics(metrics) == {p \in metrics : p[2] = TRUE}

\* MessageURL(value): the fields as typed values (enumeration members, an
\* HttpUrl), the metrics filtered.
MessageURL(value) ==
    [type |-> <<"MessageType", value.type>>,
     input |-> <<"MessageInput", value.input>>,
     url |-> <<"HttpUrl", value.url>>,
     data |-> value.data, filename |-> value.filename,
     metrics |-> SelectedMetrics(value.metrics)]

\* jsonable_encoder(message): every typed value becomes the string it holds.
JsonableEncoder(msg) ==
    [type |-> msg.type[2], input |-> msg.input[2], url |-> msg.url[2],
     data |-> msg.data, filename |-> msg.filename, metrics |-> msg.metrics]

NoMessage == [kind |-> "none", data |-> UrlMessage("None", {})]

\* test_message_url, lines 134-135, on any valid request.
Serialise ==
    /\ message.out.kind = "none"
    /\ message' = [message EXCEPT !.out =
            [kind |-> "dict",
             data |-> JsonableEncoder(MessageURL(message.value))]]
    /\ UNCHANGED <<m25, m19, varsM30, preprocess, postprocess, overlay, varsTools>>

MessageInput(value) == [value |-> value, out |-> NoMessage]

InitMessage == message = MessageInput(input_value_message_url)

AnyUrlMessage ==
    message \in {MessageInput(UrlMessage(url, metrics)) :
                    url \in Urls, metrics \in MetricMaps}

----------------------------------------------------------------------------
(* server: parse_environ_options, which overrides the options with the     *)
(* process environment.                                                    *)

EnvNames ==
    {"ENVIRONMENT", "NAME", "PORT", "DATA_INPUTS_DIR", "DATA_RESULTS_DIR",
     "DB_USER", "DB_PASS", "DB_HOST", "DB_PORT", "DB_NAME"}
DbNames == {"DB_USER", "DB_PASS", "DB_HOST", "DB_PORT", "DB_NAME"}

\* What os.environ.get(name) gives: None, or the variable's string.
EnvNone == [set |-> FALSE, value |-> ""]
EnvStr(value) == [set |-> TRUE, value |-> value]

\* os.environ: a mapping from the names of the variables that are set to
\* their strings.  os.environ.get(name) is None for a name it does not hold.
EnvironGet(environ, name) ==
    IF name \in DOMAIN environ THEN EnvStr(environ[name]) ELSE EnvNone

\* The os.environ in which os.environ.get(name) gives got[name].
Environ(got) ==
    [name \in {n \in DOMAIN got : got[n].set} |-> got[name].value]

\* os.environ once one more variable is set.
Setenv(environ, name, value) ==
    [n \in DOMAIN environ \cup {name} |->
        IF n = name THEN value ELSE environ[n]]

\* The strings a variable may hold, the empty string apart.
EnvStrings(name) ==
    CASE name = "ENVIRONMENT" -> {"production"}
      [] name = "NAME" -> {"aim-prod"}
      [] name = "PORT" -> {"0443", "http"}
      [] name = "DATA_INPUTS_DIR" -> {"/data/inputs"}
      [] name = "DATA_RESULTS_DIR" -> {"/data/results"}
      [] name = "DB_USER" -> {"aim"}
      [] name = "DB_PASS" -> {"secret"}
      [] name = "DB_HOST" -> {"db.local"}
      [] name = "DB_PORT" -> {"27017"}
      [] OTHER -> {"aimdb"}

EnvValues(name) == {EnvNone, EnvStr("")} \cup {EnvStr(v) : v \in EnvStrings(name)}

\* Variant of the test: "is not None".
IsSet(x) == x.set

\* The truth value of os.environ.get(name) in an if: None and "" are false.
Truthy(x) == x.set /\ x.value # ""

\* int(port): the strings int() accepts with the integers it makes of them
\* (a leading zero is dropped); for any other string int() raises ValueError.
IntLiterals == {<<"8080", 8080>>, <<"0443", 443>>}
IsIntLiteral(str) == \E p \in IntLiterals : p[1] = str
ParseInt(str) == (CHOOSE p \in IntLiterals : p[1] = str)[2]

\* Path(str).
Path(str) == <<"Path", str>>

\* Line 108: the f-string.
DatabaseUri(user, pass, host, port, name) ==
    <<"mongodb://", user, ":", pass, "@", host, ":", port, "/", name,
      "?authSource=admin">>

\* Lines 51-68: the options as defined, and as a command line has set them
\* (main parses the command line before it reads the environment).
DefaultOptions ==
    [environment |-> "development", name |-> "aim-dev", port |-> 8888,
     data_inputs_dir |-> "None", data_results_dir |-> "None",
     database_uri |-> "None", logging |-> "info"]
CommandLineOptions ==
    [environment |-> "test", name |-> "aim-cli", port |-> 9999,
     data_inputs_dir |-> Path("/cli/inputs"),
     data_results_dir |-> Path("/cli/results"),
     database_uri |-> "mongodb://cli.local/aim", logging |-> "debug"]
OptionsBefore == {DefaultOptions, CommandLineOptions}

\* parse_environ_options(), lines 84-108: the options are assigned one
\* after the other, so that the ValueError of int(port) at line 94 leaves
\* the assignments of lines 90 and 92 done and the later ones undone.
ParseEnvironOptions(environ, options) ==
    LET get(name) == EnvironGet(environ, name)
        port == get("PORT")
        data_inputs_dir == get("DATA_INPUTS_DIR")
        data_results_dir == get("DATA_RESULTS_DIR")
        o1 == IF Truthy(get("ENVIRONMENT"))
              THEN [options EXCEPT !.environment = get("ENVIRONMENT").value]
              ELSE options
        o2 == IF Truthy(get("NAME"))
              THEN [o1 EXCEPT !.name = get("NAME").value] ELSE o1
        o3 == IF Truthy(port) THEN [o2 EXCEPT !.port = ParseInt(port.value)] ELSE o2
        o4 == IF Truthy(data_inputs_dir)
              THEN [o3 EXCEPT !.data_inputs_dir = Path(data_inputs_dir.value)]
              ELSE o3
        o5 == IF Truthy(data_results_dir)
              THEN [o4 EXCEPT !.data_results_dir = Path(data_results_dir.value)]
              ELSE o4
        o6 == IF \A name \in DbNames : Truthy(get(name))
              THEN [o5 EXCEPT !.database_uri =
                        DatabaseUri(get("DB_USER").value,
                                    get("DB_PASS").value,
                                    get("DB_HOST").value,
                                    get("DB_PORT").value,
                                    get("DB_NAME").value)]
              ELSE o5
    IN IF Truthy(port) /\ ~IsIntLiteral(port.value)
       THEN [kind |-> "raise", error |-> "ValueError", options |-> o2]
       ELSE [kind |-> "return", error |-> "-", options |-> o6]

NoOptions == [kind |-> "none", error |-> "-", options |-> DefaultOptions]

\* parse_environ_options runs in a process with the given environment.
ParseEnvironCall ==
    /\ environ_options.out.kind = "none"
    /\ environ_options' = [environ_options EXCEPT !.out =
            ParseEnvironOptions(environ_options.environ,
                                environ_options.options)]
    /\ UNCHANGED <<m25, m19, varsM30, preprocess, postprocess, overlay,
                   message, server, screenshots>>

EnvironInput(environ, options) ==
    [environ |-> environ, options |-> options, out |-> NoOptions]

EmptyEnviron == Environ([name \in EnvNames |-> EnvNone])

InitEnvironOptions ==
    environ_options = EnvironInput(EmptyEnviron, DefaultOptions)

\* Any environment over the ten variables, with the options as defined or
\* as a command line has set them.
AnyEnviron ==
    environ_options \in
        {EnvironInput(Environ(
            [ENVIRONMENT |-> environment, NAME |-> name, PORT |-> port,
             DATA_INPUTS_DIR |-> data_inputs_dir,
             DATA_RESULTS_DIR |-> data_results_dir,
             DB_USER |-> db_user, DB_PASS |-> db_pass, DB_HOST |-> db_host,
             DB_PORT |-> db_port, DB_NAME |-> db_name]), options) :
            environment \in EnvValues("ENVIRONMENT"), name \in EnvValues("NAME"),
            port \in EnvValues("PORT"),
            data_inputs_dir \in EnvValues("DATA_INPUTS_DIR"),
            data_results_dir \in EnvValues("DATA_RESULTS_DIR"),
            db_user \in EnvValues("DB_USER"), db_pass \in EnvValues("DB_PASS"),
            db_host \in EnvValues("DB_HOST"), db_port \in EnvValues("DB_PORT"),
            db_name \in EnvValues("DB_NAME"), options \in OptionsBefore}

----------------------------------------------------------------------------
(* server: main, statement by statement.  The database error sink is a     *)
(* closure over main's local db, which is bound when make_app has          *)
(* returned.                                                               *)

MaxMessages == 2    \* records the handlers log while the server runs

Levels == {"INFO", "ERROR"}
LevelNo(level) == IF level = "ERROR" THEN 40 ELSE 20

\* Variant: parse_environ_options reports what it overrides as an error.
LoguruRecordsOnOptions(stmt) ==
    IF stmt = "listen" THEN <<"INFO">>
    ELSE IF stmt = "parse_environ_options" THEN <<"ERROR">> ELSE <<>>

\* The records a statement of main hands to loguru: the logger.info of
\* lines 171-175 is main's only call of the logger.
LoguruRecords(stmt) == IF stmt = "listen" THEN <<"INFO">> ELSE <<>>

\* make_app, lines 112-113: get_database() needs the default database
\* that the URI names; without a URI it raises ConfigurationError.
MakeAppRaises(options) == options.database_uri = "None"

\* A record reaches the database sink when utils.configure_loguru_logger
\* has added the sink and the record's level is at least the sink's; the
\* sink then evaluates db["errors"], finding db bound or not.
Deliver(srv, level) ==
    IF "database_sink" \in srv.sinks /\ LevelNo(level) >= LevelNo(srv.sink_level)
    THEN [srv EXCEPT !.sink_calls =
            Append(@, [level |-> level, db_bound |-> srv.db # "unbound"])]
    ELSE srv

RECURSIVE DeliverAll(_, _)
DeliverAll(srv, records) ==
    IF records = <<>> THEN srv
    ELSE DeliverAll(Deliver(srv, Head(records)), Tail(records))

\* A statement has run: its records are delivered and it joins the trace.
Ran(srv, stmt, next) ==
    [DeliverAll(srv, LoguruRecords(stmt)) EXCEPT
        !.pc = next, !.trace = Append(@, stmt)]

\* An exception leaves main: nothing in main catches or logs it.
Exited(srv, stmt, error) ==
    [srv EXCEPT !.pc = "exited", !.error = error, !.trace = Append(@, stmt)]

ServerUnchanged ==
    UNCHANGED <<m25, m19, varsM30, preprocess, postprocess, overlay, message,
                environ_options, screenshots>>

\* Lines 146-151: the options of the command line.
MainParseCommandLine ==
    /\ server.pc = "parse_command_line"
    /\ server' = Ran(server, "parse_command_line", "install_sink")
    /\ ServerUnchanged

\* Lines 154-156: configmanager.database_sink = lambda msg: db[...].
MainInstallSink ==
    /\ server.pc = "install_sink"
    /\ server' = Ran([server EXCEPT !.database_sink = TRUE],
                     "install_sink", "configure_loguru_logger")
    /\ ServerUnchanged

\* Lines 157-163: utils.configure_loguru_logger() adds the sinks, the
\* database sink among them; the other loggers are configured.
MainConfigureLoggers ==
    /\ server.pc = "configure_loguru_logger"
    /\ server' = Ran([server EXCEPT !.sinks =
                        IF server.database_sink
                        THEN {"stderr", "database_sink"} ELSE {"stderr"}],
                     "configure_loguru_logger", "parse_environ_options")
    /\ ServerUnchanged

\* Line 166.
MainParseEnviron ==
    /\ server.pc = "parse_environ_options"
    /\ LET out == ParseEnvironOptions(server.environ, server.options)
           srv == [server EXCEPT !.options = out.options]
       IN server' = IF out.kind = "raise"
                    THEN Exited(srv, "parse_environ_options", out.error)
                    ELSE Ran(srv, "parse_environ_options", "make_app")
    /\ ServerUnchanged

\* Line 169: db, app = make_app().
MainMakeApp ==
    /\ server.pc = "make_app"
    /\ server' = IF MakeAppRaises(server.options)
                 THEN Exited(server, "make_app", "ConfigurationError")
                 ELSE Ran([server EXCEPT !.db = "MotorDatabase"],
                          "make_app", "listen")
    /\ ServerUnchanged

\* Lines 170-175: app.listen(options.port), then logger.info(...).
MainListen ==
    /\ server.pc = "listen"
    /\ server' = Ran(server, "listen", "serving")
    /\ ServerUnchanged

\* Line 178: the IOLoop runs; a handler logs a record.
MainServe ==
    /\ server.pc = "serving"
    /\ server.handled < MaxMessages
    /\ \E level \in Levels :
        server' = [Deliver(server, level) EXCEPT !.handled = @ + 1]
    /\ ServerUnchanged

ServerInput(environ, options, sink_level) ==
    [pc |-> "parse_command_line", environ |-> environ, options |-> options,
     sink_level |-> sink_level, database_sink |-> FALSE, sinks |-> {},
     db |-> "unbound", sink_calls |-> <<>>, handled |-> 0, trace |-> <<>>,
     error |-> "-"]

InitServer == server = ServerInput(EmptyEnviron, DefaultOptions, "ERROR")

\* The environments main is started in: none of the variables set, the
\* five of the database set, and the port set to a number or to a word.
DbEnviron ==
    [DB_USER |-> "aim", DB_PASS |-> "secret", DB_HOST |-> "db.local",
     DB_PORT |-> "27017", DB_NAME |-> "aimdb"]
MainEnvirons ==
    {EmptyEnviron, DbEnviron,
     Setenv(DbEnviron, "PORT", "8080"), Setenv(DbEnviron, "PORT", "http")}

AnyServer ==
    server \in {ServerInput(environ, options, sink_level) :
                    environ \in MainEnvirons, options \in OptionsBefore,
                    sink_level \in Levels}

----------------------------------------------------------------------------
(* tools: Screenshots.take, statement by statement.  The browser is the    *)
(* web driver: "open" from _get_web_driver on, "closed" after quit.        *)

MaxUrls == 2        \* lines of the input file

\* The lines of an input file as readlines gives them, and str.strip().
FileLines == {"http://a.example/\n", "  https://b.example/gui \n"}
Strip(line) ==
    IF line = "http://a.example/\n" THEN "http://a.example/"
    ELSE "https://b.example/gui"

\* Lines 69-72: _read_input_urls.
ReadInputUrls(lines) == [k \in 1..Len(lines) |-> Strip(lines[k])]

\* A call on the driver, with the URL it is made for.
DriverCall(op, url) == [op |-> op, url |-> url]

\* Lines 119-141: the size the window is given before the URL is loaded.
FirstWindowSize(width, height) ==
    IF height > 0 THEN <<width, "height">>
    ELSE <<width, "SCREENSHOTER_MIN_HEIGHT_DESKTOP">>

\* Lines 122-127 and 134-141: what follows driver.get for one URL.
CaptureCalls(height, url) ==
    IF height > 0 THEN <<DriverCall("save_screenshot", url)>>
    ELSE <<DriverCall("execute_script", url), DriverCall("execute_script", url),
           DriverCall("set_window_size", url), DriverCall("screenshot", url)>>

ScreenshotsUnchanged ==
    UNCHANGED <<m25, m19, varsM30, preprocess, postprocess, overlay, message,
                environ_options, server>>

\* Line 109.
TakeReadInputUrls ==
    /\ screenshots.pc = "read_input_urls"
    /\ screenshots' = [screenshots EXCEPT
            !.input_urls = ReadInputUrls(screenshots.lines),
            !.pc = "get_web_driver"]
    /\ ScreenshotsUnchanged

\* Line 112: the browser is started, or webdriver.Chrome raises.
TakeGetWebDriver ==
    /\ screenshots.pc = "get_web_driver"
    /\ \/ screenshots' = [screenshots EXCEPT !.driver = "open", !.pc = "for"]
       \/ screenshots' = [screenshots EXCEPT !.pc = "raised",
                                             !.error = "WebDriverException"]
    /\ ScreenshotsUnchanged

\* Line 115: the next URL of the list, or the end of the loop.
TakeNextUrl ==
    /\ screenshots.pc = "for"
    /\ screenshots' =
        IF screenshots.i < Len(screenshots.input_urls)
        THEN [screenshots EXCEPT !.i = @ + 1, !.pc = "set_window_size"]
        ELSE [screenshots EXCEPT !.pc = "quit"]
    /\ ScreenshotsUnchanged

\* Lines 120 and 130-132.
TakeSetWindowSize ==
    /\ screenshots.pc = "set_window_size"
    /\ screenshots' = [screenshots EXCEPT
            !.window = FirstWindowSize(screenshots.width, screenshots.height),
            !.calls = Append(@, DriverCall("set_window_size",
                                screenshots.input_urls[screenshots.i])),
            !.pc = "get"]
    /\ ScreenshotsUnchanged

\* Lines 121 and 133.
TakeGet ==
    /\ screenshots.pc = "get"
    /\ screenshots' = [screenshots EXCEPT
            !.calls = Append(@, DriverCall("get",
                                screenshots.input_urls[screenshots.i])),
            !.pc = "capture"]
    /\ ScreenshotsUnchanged

\* Lines 122-127 and 134-141.
TakeCapture ==
    /\ screenshots.pc = "capture"
    /\ screenshots' = [screenshots EXCEPT
            !.calls = @ \o CaptureCalls(screenshots.height,
                                        screenshots.input_urls[screenshots.i]),
            !.pc = "for"]
    /\ ScreenshotsUnchanged

\* A call on the driver raises (the page cannot be loaded, the file cannot
\* be written): take has no try block, the exception leaves it at once.
TakeRaise ==
    /\ screenshots.pc \in {"get", "capture"}
    /\ screenshots' = [screenshots EXCEPT !.pc = "raised",
                                          !.error = "WebDriverException"]
    /\ ScreenshotsUnchanged

\* Line 144: self.driver.quit().
TakeQuit ==
    /\ screenshots.pc = "quit"
    /\ screenshots' = [screenshots EXCEPT
            !.driver = "closed", !.quits = @ + 1,
            !.calls = Append(@, DriverCall("quit", "-")), !.pc = "returned"]
    /\ ScreenshotsUnchanged

ScreenshotsInput(lines, width, height) ==
    [lines |-> lines, width |-> width, height |-> height, input_urls |-> <<>>,
     pc |-> "read_input_urls", i |-> 0, driver |-> "None",
     window |-> <<"-", "-">>, calls |-> <<>>, quits |-> 0, error |-> "-"]

InitScreenshots == screenshots = ScreenshotsInput(<<>>, 1280, 800)

\* Any input file of up to MaxUrls lines, for a fixed-size screenshot
\* (height > 0) or a full-page one.
AnyInputFile ==
    screenshots \in {ScreenshotsInput(lines, 1280, height) :
                        lines \in SeqsUpTo(FileLines, MaxUrls),
                        height \in {0, 800}}

----------------------------------------------------------------------------
(* Specifications.                                                         *)

InitMetrics == InitM25 /\ InitM19 /\ InitM30

InitTools == InitEnvironOptions /\ InitServer /\ InitScreenshots

InitFn == InitPreprocess /\ InitPostprocess /\ InitOverlay /\ InitMessage

Init ==
    /\ InitMetrics /\ InitTools
    /\ InitPreprocess /\ InitPostprocess /\ InitOverlay /\ InitMessage

\* A metric that has not been called.
M25Quiet == m25.out.kind = "none"
M19Quiet == m19.out.kind = "none"
M30Quiet == \A c \in Calls : pc[c] = "idle"

NextM25 == M25Call

NextM19 == M19Call

NextM30 ==
    \E c \in Calls :
        \/ M30Begin(c)
        \/ M30Preprocess(c)
        \/ M30LoadModel(c)
        \/ M30LoadWeights(c)
        \/ M30Predict(c)
        \/ M30Render(c)
        \/ M30Cleanup(c)
        \/ M30Return(c)
        \/ M30Raise(c)

SpecM25 == Init /\ [][NextM25]_vars

SpecM19 == Init /\ [][NextM19]_vars

SpecM30 == Init /\ [][NextM30]_vars

NextPadding == Preprocess \/ PreprocessOtherType

InitPadding ==
    /\ InitMetrics /\ InitTools
    /\ AnyImage /\ InitPostprocess /\ InitOverlay /\ InitMessage

SpecPadding == InitPadding /\ [][NextPadding]_vars

\* What becomes of gui_type: one call of the clustering metric, and the
\* attention predictor's preprocessing of a screenshot under either type.
GuiTypeM19 == M19Quiet /\ M19Call

NextGuiType == GuiTypeM19 \/ Preprocess \/ PreprocessOtherType

InitGuiType ==
    /\ InitMetrics /\ InitTools
    /\ AnyScreenshot /\ InitPostprocess /\ InitOverlay /\ InitMessage

SpecGuiType == InitGuiType /\ [][NextGuiType]_vars

NextPostprocess == Postprocess

InitPostprocessing ==
    /\ InitMetrics /\ InitTools
    /\ InitPreprocess /\ AnyPlane /\ InitOverlay /\ InitMessage

SpecPostprocess == InitPostprocessing /\ [][NextPostprocess]_vars

\* _postprocess_predictions called with whatever n_time.
NextNTime == Postprocess

InitNTime ==
    /\ InitMetrics /\ InitTools
    /\ InitPreprocess /\ AnyNTime /\ InitOverlay /\ InitMessage

SpecNTime == InitNTime /\ [][NextNTime]_vars

NextOverlay == Overlay

InitOverlays ==
    /\ InitMetrics /\ InitTools
    /\ InitPreprocess /\ InitPostprocess /\ AnyHeatmap /\ InitMessage

SpecOverlay == InitOverlays /\ [][NextOverlay]_vars

NextMessage == Serialise

InitMessages ==
    /\ InitMetrics /\ InitTools
    /\ InitPreprocess /\ InitPostprocess /\ InitOverlay /\ AnyUrlMessage

SpecMessage == InitMessages /\ [][NextMessage]_vars

NextEnviron == ParseEnvironCall

InitEnviron ==
    /\ InitMetrics /\ InitFn
    /\ AnyEnviron /\ InitServer /\ InitScreenshots

SpecEnviron == InitEnviron /\ [][NextEnviron]_vars

NextMain ==
    \/ MainParseCommandLine
    \/ MainInstallSink
    \/ MainConfigureLoggers
    \/ MainParseEnviron
    \/ MainMakeApp
    \/ MainListen
    \/ MainServe

InitMain ==
    /\ InitMetrics /\ InitFn
    /\ InitEnvironOptions /\ AnyServer /\ InitScreenshots

SpecMain == InitMain /\ [][NextMain]_vars

NextTake ==
    \/ TakeReadInputUrls
    \/ TakeGetWebDriver
    \/ TakeNextUrl
    \/ TakeSetWindowSize
    \/ TakeGet
    \/ TakeCapture
    \/ TakeRaise
    \/ TakeQuit

InitTake ==
    /\ InitMetrics /\ InitFn
    /\ InitEnvironOptions /\ InitServer /\ AnyInputFile

SpecTake == InitTake /\ [][NextTake]_vars

\* The facade as a whole: any of the three metrics is invoked.  The metrics
\* share no state, so a behaviour explores one of them; calls of the
\* attention predictor come one after another, as from the server's event
\* loop.
FacadeM25 == M19Quiet /\ M30Quiet /\ M25Call

FacadeM19 == M25Quiet /\ M30Quiet /\ M19Call

FacadeM30Begin(c) == (\A d \in Calls : ~InFlight(d)) /\ M30Begin(c)

FacadeM30 ==
    /\ M25Quiet /\ M19Quiet
    /\ \E c \in Calls :
        \/ FacadeM30Begin(c)
        \/ M30Preprocess(c)
        \/ M30LoadModel(c)
        \/ M30LoadWeights(c)
        \/ M30Predict(c)
        \/ M30Render(c)
        \/ M30Cleanup(c)
        \/ M30Return(c)
        \/ M30Raise(c)

NextFacade == FacadeM25 \/ FacadeM19 \/ FacadeM30

SpecFacade == Init /\ [][NextFacade]_vars

----------------------------------------------------------------------------
(* Claims about m25 (checked under SpecM25).                               *)

M25Called == m25.out.kind # "none"

\* C1: m25.execute_metric called with gui_segments = None raises ValueError
\* and returns no list, whatever gui_image, gui_type and gui_url are.
C1_NoneSegmentsRaiseValueError ==
    (M25Called /\ m25.gui_segments.isNone) => m25.out = Raise("ValueError")

\* A call with gui_segments = None, an undecodable image, the mobile type
\* and a URL has raised.
C1_Witness ==
    /\ m25.out.kind = "raise"
    /\ m25.gui_segments.isNone
    /\ m25.gui_image = "not_a_png"
    /\ m25.gui_type = GUI_TYPE_MOBILE
    /\ m25.gui_url # "None"

\* C2: m25.execute_metric called with precomputed segments (a mapping that
\* holds img_b64, the contract of a precomputed segmentation) returns a list
\* of one element, the very string stored under img_b64.
C2_SegmentsPassThrough ==
    (/\ M25Called
     /\ ~m25.gui_segments.isNone
     /\ HasKey(m25.gui_segments.dict, "img_b64"))
    => /\ m25.out.kind = "return"
       /\ Len(m25.out.value) = 1
       /\ <<"img_b64", m25.out.value[1]>> \in m25.gui_segments.dict

\* A call whose segments hold img_b64 and another key, with a different
\* string under each, has returned.
C2_Witness ==
    /\ m25.out.kind = "return"
    /\ \E a \in B64Strings, b \in B64Strings :
        /\ a # b
        /\ m25.gui_segments = Some({<<"img_b64", a>>, <<"compos", b>>})

----------------------------------------------------------------------------
(* Claims about m19 (checked under SpecM19).                               *)

\* The engine ran: the call got past decoding the image.
M19EngineRan == m19.out.kind # "none" /\ m19.gui_image \in DecodablePNG

\* The sum of the distinct-colour counts (position 4) of the records.
SumOfDistinctCounts(clusters) ==
    LET partial[i \in 0..Len(clusters)] ==
            IF i = 0 THEN 0 ELSE partial[i - 1] + clusters[i][5]
    IN partial[Len(clusters)]

\* C3: when the clustering engine returns zero clusters, m19.execute_metric
\* returns the list [0.0]: no division is attempted and nothing is raised.
C3_ZeroClustersGiveZero ==
    (M19EngineRan /\ Len(m19.clusters) = 0) => m19.out = Return(<<<<0, 1>>>>)

\* A call on a decodable image for which the engine found no cluster has
\* returned.
C3_Witness ==
    /\ m19.out.kind = "return"
    /\ m19.gui_image = "png_red_100x100"
    /\ m19.clusters = <<>>

\* C4: for a non-empty list of clusters the ratio returned is the sum of
\* the clusters' distinct-colour counts (position 4 of each record) divided
\* by the number of clusters.
C4_RatioIsSumOverCount ==
    (M19EngineRan /\ Len(m19.clusters) > 0)
    => /\ m19.out.kind = "return"
       /\ Len(m19.out.value) = 1
       /\ m19.out.value[1][2] > 0
       /\ m19.out.value[1][1] * Len(m19.clusters)
            = m19.out.value[1][2] * SumOfDistinctCounts(m19.clusters)

\* A call has returned for several clusters whose distinct-colour counts
\* differ from each other.
C4_Witness ==
    /\ m19.out.kind = "return"
    /\ Len(m19.clusters) >= 2
    /\ m19.clusters[1][5] # m19.clusters[2][5]

\* C5: for any number of clusters with non-negative distinct-colour counts
\* the call returns a ratio that is >= 0 and finite (a quotient with a
\* non-zero denominator; no ZeroDivisionError).
C5_RatioNonNegativeFinite ==
    (/\ M19EngineRan
     /\ \A i \in 1..Len(m19.clusters) : m19.clusters[i][5] >= 0)
    => /\ m19.out.kind = "return"
       /\ Len(m19.out.value) = 1
       /\ m19.out.value[1][2] > 0
       /\ m19.out.value[1][1] >= 0

\* A call has returned a ratio that is positive and no integer.
C5_Witness ==
    /\ m19.out.kind = "return"
    /\ m19.out.value[1][1] > 0
    /\ m19.out.value[1][2] > 1

----------------------------------------------------------------------------
(* Claims about m30 (checked under SpecM30).                               *)

\* The statements of execute_metric that use loaded_model (lines 431, 434).
UsesModel(c) == pc[c] \in {"load_weights", "predict"}

C7_ReleasedBeforeReturn ==
    \A c \in Calls :
        /\ UsesModel(c) => (loaded_model[c] # 0 /\ loaded_model[c] = acquired[c])
        /\ pc[c] \in {"return", "returned"}
           => /\ acquired[c] # 0
              /\ loaded_model[c] = 0
              /\ acquired[c] \notin session

\* A call has run its cleanup and is about to return while another call's
\* own model is alive in the session.
C7_Witness ==
    \E c \in Calls, d \in Calls :
        /\ pc[c] = "return"
        /\ UsesModel(d)
        /\ loaded_model[d] \in session

\* C8: the model is released on every exit path: when a statement after the
\* model was built raises, the model and the backend session have still
\* been released when the call exits.
C8_ReleasedOnEveryExit ==
    \A c \in Calls :
        (pc[c] = "raised" /\ acquired[c] # 0)
        => (loaded_model[c] = 0 /\ acquired[c] \notin session)

\* C9: concurrent calls are safe: no two in-flight calls share a model
\* handle, and no step of one call invalidates the model another in-flight
\* call is still using.
C9_ConcurrentCallsSafe ==
    /\ \A c \in Calls, d \in Calls :
        (c # d /\ loaded_model[c] # 0) => loaded_model[c] # loaded_model[d]
    /\ \A c \in Calls : UsesModel(c) => loaded_model[c] \in session

\* C10 (for the attention predictor): two calls with the same argument that
\* return, return the same list, and no call leaves state behind: whenever
\* no call is in flight the backend session is as it was before the first.
C10_PureDeterministic ==
    /\ \A c \in Calls, d \in Calls :
        (pc[c] = "returned" /\ pc[d] = "returned" /\ args[c] = args[d])
        => outcome[c] = outcome[d]
    /\ (\A c \in Calls : ~InFlight(c)) => session = {}

----------------------------------------------------------------------------
(* Claims about the facade (checked under SpecFacade and SpecM25).         *)

\* The outcomes of all calls made so far, with the arity of each metric's
\* list: 1 for m25 and m19, 6 for m30.
FacadeOutcomes ==
    {<<1, m25.out>>, <<1, m19.out>>} \cup {<<6, outcome[c]>> : c \in Calls}

C12_NeverReturnsNone ==
    /\ \A o \in FacadeOutcomes : o[2].kind # "return_none"
    /\ (m25.out.kind \notin {"none", "raise"}) => m25.out = Return(m25.out.value)
    /\ (m19.out.kind \notin {"none", "raise"}) => m19.out = Return(m19.out.value)
    /\ \A c \in Calls :
        (pc[c] \notin {"idle", "raised"} /\ ~InFlight(c))
        => outcome[c] = Return(outcome[c].value) /\ outcome[c].value # <<>>

\* The degenerate call, where the engine finds no cluster in the image, has
\* ended: it is the call a metric could answer with None.
C12_Witness ==
    /\ m19.out.kind # "none"
    /\ m19.gui_image \in DecodablePNG
    /\ m19.clusters = <<>>

\* C13: a call of m25.execute_metric with gui_segments = None raises at
\* once: the test of gui_segments is the first statement run and the raise
\* the second and last; gui_image is not decoded, gui_type and gui_url are
\* not read, no other statement runs.
C13_RaisedBeforeAnyComputation ==
    (M25Called /\ m25.gui_segments.isNone)
    => /\ m25.steps = <<"test gui_segments", "raise ValueError">>
       /\ m25.out = Raise("ValueError")

\* A call with gui_segments = None and an image that cannot be decoded has
\* ended.
C13_Witness ==
    /\ M25Called
    /\ m25.gui_segments.isNone
    /\ m25.gui_image \notin DecodablePNG
    /\ m25.steps # <<>>

----------------------------------------------------------------------------
(* Claims about _padding (checked under SpecPadding).                      *)

Padded == preprocess.out.kind # "none"

\* C14: an image of exactly 240 rows x 320 columns comes back unchanged:
\* it is scaled to 240 x 320 (the resize leaves it as it is), pasted at
\* offset 0 on both axes into a window that is the whole 240 x 320 canvas,
\* so nothing is cropped, shifted or zero-padded.
C14_NativeSizeUnchanged ==
    (Padded /\ preprocess.rows = 240 /\ preprocess.cols = 320)
    => /\ preprocess.out.kind = "array"
       /\ preprocess.out.scaled = <<240, 320>>
       /\ ~preprocess.out.resampled
       /\ preprocess.out.offset = <<0, 0>>
       /\ preprocess.out.new = <<240, 320>>
       /\ preprocess.out.shape = <<240, 320, 3>>

\* An image of the model's size has been padded.
C14_Witness ==
    /\ preprocess.out.kind = "array"
    /\ preprocess.rows = 240
    /\ preprocess.cols = 320

\* C16: a 1 x 1 image does not crash _padding: the scaled size is not
\* empty and fits the 240 x 320 canvas, the paste window starts at a valid
\* offset and ends inside the canvas, and a 240 x 320 x 3 array comes back.
C16_OnePixelDoesNotCrash ==
    (Padded /\ preprocess.rows = 1 /\ preprocess.cols = 1)
    => /\ preprocess.out.kind = "array"
       /\ preprocess.out.scaled[1] \in 1..240
       /\ preprocess.out.scaled[2] \in 1..320
       /\ preprocess.out.offset[1] >= 0
       /\ preprocess.out.offset[2] >= 0
       /\ preprocess.out.offset[1] + preprocess.out.scaled[1] <= 240
       /\ preprocess.out.offset[2] + preprocess.out.scaled[2] <= 320
       /\ preprocess.out.shape = <<240, 320, 3>>

\* A 1 x 1 image has gone through _padding.
C16_Witness ==
    /\ Padded
    /\ preprocess.rows = 1
    /\ preprocess.cols = 1

\* The strips of zeros before and after the window on one axis.
StripBefore(axis) == preprocess.out.offset[axis]
StripAfter(axis) ==
    <<240, 320>>[axis] - preprocess.out.offset[axis] - preprocess.out.new[axis]

\* The arithmetic of C19, for the size the image is scaled to.
C19_Arithmetic ==
    /\ preprocess.out.scaled[1] <= 240
    /\ preprocess.out.scaled[2] <= 320
    /\ preprocess.out.scaled[1] = 240 \/ preprocess.out.scaled[2] = 320
    /\ Clamp(preprocess.out.scaled[1], 240) = preprocess.out.scaled[1]
    /\ Clamp(preprocess.out.scaled[2], 320) = preprocess.out.scaled[2]

\* C19: every image of at least 1 x 1 pixels is scaled so that both scaled
\* sides are within 240 x 320 (one side equals its target, the other is
\* floor-scaled and no larger than its target, so that no clamp fires) and
\* is pasted centred: the offset is (target - new) // 2, the window lies
\* inside the canvas, the strips on its two sides differ by at most 1.
C19_ScaledIntoBoxAndCentred ==
    Padded
    => /\ C19_Arithmetic
       /\ preprocess.out.kind = "array"
       /\ preprocess.out.new = preprocess.out.scaled
       /\ preprocess.out.offset =
            <<(240 - preprocess.out.new[1]) \div 2,
              (320 - preprocess.out.new[2]) \div 2>>
       /\ \A axis \in 1..2 :
            /\ StripBefore(axis) >= 0
            /\ StripAfter(axis) >= 0
            /\ StripAfter(axis) - StripBefore(axis) \in {0, 1}

----------------------------------------------------------------------------
(* Claims about _postprocess_predictions (checked under SpecPostprocess).  *)

\* C15: for every original image of width w >= 1 and height h >= 1 and
\* every plane of p_rows x p_cols, the heatmap returned has exactly h rows
\* and w columns: the plane is resized to at least the original size on
\* both axes (to exactly that size on one of them), the offset of the
\* centre crop is not negative, and the crop window of w columns (or h
\* rows) ends inside the resized plane.
C15_HeatmapHasOriginalSize ==
    postprocess.out.kind # "none"
    => /\ postprocess.out.shape = <<postprocess.height, postprocess.width>>
       /\ postprocess.out.resized[1] >= postprocess.height
       /\ postprocess.out.resized[2] >= postprocess.width
       /\ \/ postprocess.out.resized[1] = postprocess.height
          \/ postprocess.out.resized[2] = postprocess.width
       /\ postprocess.out.offset[1] >= 0
       /\ postprocess.out.offset[2] >= 0
       /\ postprocess.out.offset[1] + postprocess.height
            <= postprocess.out.resized[1]
       /\ postprocess.out.offset[2] + postprocess.width
            <= postprocess.out.resized[2]

\* A heatmap has been cut out of a resized plane that is wider than the
\* original image by an odd number of columns, at least three.
C15_Witness ==
    /\ postprocess.out.kind = "array"
    /\ postprocess.out.offset[2] >= 1
    /\ postprocess.out.resized[2] > postprocess.width + 2 * postprocess.out.offset[2]
    /\ postprocess.width > 1

----------------------------------------------------------------------------
(* Claims about gui_type (checked under SpecGuiType).                      *)

\* The clustering metric hands the engine the gui_type it was called with.
GuiTypeForwarded ==
    M19EngineRan => (m19.engine.called /\ m19.engine.gui_type = m19.gui_type)

\* C17 as amended: the clustering metric forwards gui_type unchanged to the
\* clustering engine; the attention predictor does not read gui_type: the
\* padding of an image is the same under Desktop and under Mobile (the
\* 240 x 320 canvas, the scaled size and the offset depend on the image's
\* size alone).
C17_ForwardedToEngineIgnoredByPadding ==
    /\ GuiTypeForwarded
    /\ Padded => /\ \A gui_type \in GuiTypes :
                      preprocess.out = PreprocessImages(gui_type,
                                            preprocess.rows, preprocess.cols)
                 /\ preprocess.out.shape = <<240, 320, 3>>

\* C17: gui_type affects the clustering and the padding parameters: the
\* clustering metric forwards gui_type unchanged to the clustering engine,
\* and the padding the attention predictor applies to an image depends on
\* gui_type (under the other type it is another).
C17_AffectsClusteringAndPadding ==
    /\ GuiTypeForwarded
    /\ Padded => \E gui_type \in GuiTypes :
                    preprocess.out # PreprocessImages(gui_type,
                                          preprocess.rows, preprocess.cols)

\* The engine has run for a mobile GUI, and a screenshot that is no square
\* has been padded as a desktop GUI and then again as a mobile GUI.
C17_Witness ==
    /\ M19EngineRan
    /\ m19.gui_type = GUI_TYPE_MOBILE
    /\ Padded
    /\ preprocess.gui_type = GUI_TYPE_MOBILE
    /\ preprocess.rows # preprocess.cols

----------------------------------------------------------------------------
(* Claims about the message model (checked under SpecMessage).             *)

\* C18: serialising a validated URL message keeps in its metrics map
\* exactly the entries whose value is true (every entry set to false is
\* dropped) and leaves type, input, url, data and filename equal to the
\* input; for the request of the test the result is the dictionary the
\* test expects.
C18_OnlyTrueMetricsKept ==
    message.out.kind # "none"
    => /\ \A id \in MetricIds, on \in BOOLEAN :
            <<id, on>> \in message.out.data.metrics
            <=> (on /\ <<id, TRUE>> \in message.value.metrics)
       /\ message.out.data.type = message.value.type
       /\ message.out.data.input = message.value.input
       /\ message.out.data.url = message.value.url
       /\ message.out.data.data = message.value.data
       /\ message.out.data.filename = message.value.filename
       /\ message.value = input_value_message_url
          => message.out.data = expected_result_message_url

\* A message that switches some metrics on and others off has been
\* serialised.
C18_Witness ==
    /\ message.out.kind = "dict"
    /\ \E a \in MetricIds, b \in MetricIds :
        /\ <<a, TRUE>> \in message.value.metrics
        /\ <<b, FALSE>> \in message.value.metrics

----------------------------------------------------------------------------
(* Claims about _heatmap_overlays (checked under SpecOverlay).             *)

\* The smallest and the largest intensity of the heatmap overlaid.
HeatLow == SeqMin(overlay.heatmap)
HeatHigh == SeqMax(overlay.heatmap)

\* C20: every pixel of the overlay is colormap(heatmap_norm) * 255 * alpha
\* + original * (1 - alpha), cut to an integer, where alpha is the pixel's
\* own min-max-normalised intensity (h - min) / (max - min), the same on
\* the 3 channels: a pixel with alpha = 0 keeps the original colour, a
\* pixel with alpha = 1 takes the colour of the colormap, and alpha is no
\* constant shared by the pixels: pixels of different intensity are
\* blended with different alpha.
C20_PerPixelAlphaBlend ==
    overlay.out.kind # "none"
    => /\ \A i \in 1..Len(overlay.image), ch \in Channels :
            LET alpha == overlay.out.alpha[i][ch]
                im == overlay.image[i][ch]
                res == overlay.out.pixels[i][ch]
            IN /\ alpha = overlay.out.alpha[i][1]
               /\ HeatHigh > HeatLow
                  => /\ ~alpha.nan /\ alpha.d > 0
                     /\ alpha.n * (HeatHigh - HeatLow)
                            = (overlay.heatmap[i] - HeatLow) * alpha.d
                     /\ res * alpha.d * alpha.d
                            <= Colormap255(overlay.colmap, alpha, ch) * alpha.n
                               + im * (alpha.d - alpha.n) * alpha.d
                     /\ Colormap255(overlay.colmap, alpha, ch) * alpha.n
                               + im * (alpha.d - alpha.n) * alpha.d
                            < (res + 1) * alpha.d * alpha.d
                     /\ overlay.heatmap[i] = HeatLow => res = im
                     /\ overlay.heatmap[i] = HeatHigh
                            => res = ColormapHigh(overlay.colmap)[ch]
       /\ \A i \in 1..Len(overlay.image), j \in 1..Len(overlay.image) :
            overlay.heatmap[i] # overlay.heatmap[j]
            => overlay.out.alpha[i] # overlay.out.alpha[j]

\* An image of three pixels has been overlaid with a heatmap whose
\* intensities are all different, so that alpha is 0, 1/2 and 1.
C20_Witness ==
    /\ overlay.out.kind = "array"
    /\ overlay.heatmap = <<0, 1, 2>>
    /\ overlay.image[2] = <<200, 30, 120>>

----------------------------------------------------------------------------
(* Claims about the colour maps and the order of the slices (checked      *)
(* under SpecFacade).                                                      *)

\* The colour map of the k-th image of the list a call returned.
ColmapOf(c, k) == outcome[c].value[k].b64png.colmap

\* C21 (as the code has it): in execute_metric the standalone heatmaps are
\* rendered with "viridis" and the overlays with _HEATMAP_STYLE, which is
\* "viridis" as well; "hot" is the default of _heatmap_overlays' colmap,
\* which execute_metric overrides on each of its three calls.
C21_HeatmapsAndOverlaysViridis ==
    \A c \in Calls :
        outcome[c].kind = "return"
        => /\ \A k \in 1..3 : ColmapOf(c, k) = "viridis"
           /\ \A k \in 4..6 : ColmapOf(c, k) = _HEATMAP_STYLE
           /\ _HEATMAP_STYLE = "viridis"

\* C21 (as stated): the standalone heatmaps are rendered with "viridis" and
\* the alpha-blended overlays with "hot".
C21_OverlaysHot ==
    \A c \in Calls :
        outcome[c].kind = "return"
        => /\ \A k \in 1..3 : ColmapOf(c, k) = "viridis"
           /\ \A k \in 4..6 : ColmapOf(c, k) = "hot"

\* A call has returned its six images, overlays among them.
C21_Witness ==
    \E c \in Calls :
        /\ outcome[c].kind = "return"
        /\ outcome[c].value[4].b64png.kind = "overlay"
        /\ ColmapOf(c, 4) = ColmapOf(c, 1)

\* The positions in RenderSteps at which an operation is run.
StepsOf(op) == {i \in 1..Len(RenderSteps) : RenderSteps[i].op = op}

----------------------------------------------------------------------------
(* The normalisation of _heatmap_overlays (checked under SpecOverlay).     *)

\* C23: for every heatmap passed to _heatmap_overlays, one whose values are
\* all equal included, the min-max normalisation is defined (max - min is
\* not zero) and every normalised value lies in [0, 1].
C23_NormalisationDefined ==
    overlay.out.kind # "none"
    => /\ HeatHigh - HeatLow # 0
       /\ \A i \in 1..Len(overlay.heatmap) :
            LET x == HeatmapNorm(overlay.heatmap)[i] IN
            /\ ~x.nan
            /\ x.d > 0 /\ 0 <= x.n /\ x.n <= x.d
            /\ overlay.out.alpha[i] = [ch \in Channels |-> x]

----------------------------------------------------------------------------
(* Claims about the server (checked under SpecEnviron and SpecMain).       *)

\* The environment variable of the call, and whether it is set and not empty.
EnvOf(name) == EnvironGet(environ_options.environ, name)
EnvGiven(name) == EnvOf(name).set /\ EnvOf(name).value # ""

\* The call's PORT is given and is not the text of an integer.
PortNotAnInteger == EnvGiven("PORT") /\ ~IsIntLiteral(EnvOf("PORT").value)

\* The options of lines 90 and 92 are overridden exactly when given.
EnvironmentAndNameOverridden ==
    LET before == environ_options.options
        after == environ_options.out.options
    IN /\ after.environment = IF EnvGiven("ENVIRONMENT")
                              THEN EnvOf("ENVIRONMENT").value
                              ELSE before.environment
       /\ after.name = IF EnvGiven("NAME") THEN EnvOf("NAME").value
                       ELSE before.name

\* The options of lines 94-108 are overridden exactly when given, the
\* database URI exactly when all five of its variables are given.
PortDirsAndUriOverridden ==
    LET before == environ_options.options
        after == environ_options.out.options
    IN /\ IF EnvGiven("PORT")
          THEN /\ IsIntLiteral(EnvOf("PORT").value)
               /\ after.port = ParseInt(EnvOf("PORT").value)
          ELSE after.port = before.port
       /\ after.data_inputs_dir = IF EnvGiven("DATA_INPUTS_DIR")
                                  THEN Path(EnvOf("DATA_INPUTS_DIR").value)
                                  ELSE before.data_inputs_dir
       /\ after.data_results_dir = IF EnvGiven("DATA_RESULTS_DIR")
                                   THEN Path(EnvOf("DATA_RESULTS_DIR").value)
                                   ELSE before.data_results_dir
       /\ after.database_uri =
            IF \A name \in DbNames : EnvGiven(name)
            THEN DatabaseUri(EnvOf("DB_USER").value, EnvOf("DB_PASS").value,
                             EnvOf("DB_HOST").value, EnvOf("DB_PORT").value,
                             EnvOf("DB_NAME").value)
            ELSE before.database_uri

\* The options of lines 94-108 are as they were before the call.
PortDirsAndUriUntouched ==
    LET before == environ_options.options
        after == environ_options.out.options
    IN /\ after.port = before.port
       /\ after.data_inputs_dir = before.data_inputs_dir
       /\ after.data_results_dir = before.data_results_dir
       /\ after.database_uri = before.database_uri

\* C24 (as the code has it): when PORT is not set, is empty or is the text
\* of an integer, parse_environ_options returns having overridden each of
\* environment, name, port (as an integer), data_inputs_dir and
\* data_results_dir exactly when its variable is set and non-empty, and
\* database_uri exactly when all five DB_ variables are; when PORT is set
\* to another non-empty string, int(port) raises ValueError after
\* environment and name have been overridden and before anything else is.
\* Every other option keeps its value either way.
C24_OverridesUnlessPortIsNoInteger ==
    environ_options.out.kind # "none"
    => /\ EnvironmentAndNameOverridden
       /\ environ_options.out.options.logging = environ_options.options.logging
       /\ IF PortNotAnInteger
          THEN /\ environ_options.out.kind = "raise"
               /\ environ_options.out.error = "ValueError"
               /\ PortDirsAndUriUntouched
          ELSE /\ environ_options.out.kind = "return"
               /\ PortDirsAndUriOverridden

\* C24 (as stated): parse_environ_options overrides an option exactly when
\* its environment variable is set and non-empty (PORT as an integer), sets
\* database_uri exactly when all five DB_ variables are set and non-empty,
\* and leaves every other option at the value it had before the call.
C24_OverridesExactlyWhenSet ==
    environ_options.out.kind # "none"
    => /\ EnvironmentAndNameOverridden
       /\ PortDirsAndUriOverridden
       /\ environ_options.out.options.logging = environ_options.options.logging

\* The call has overridden the port with the integer of a PORT written
\* with a leading zero, has kept the database URI of the command line
\* because one DB_ variable is empty, and has overridden a directory.
C24_Witness ==
    /\ environ_options.out.kind = "return"
    /\ EnvOf("PORT").value = "0443"
    /\ environ_options.out.options.port = 443
    /\ EnvOf("DB_HOST") = EnvStr("") /\ EnvGiven("DB_USER")
    /\ environ_options.out.options.database_uri = "mongodb://cli.local/aim"
    /\ environ_options.out.options.data_inputs_dir = Path("/data/inputs")
    /\ ~EnvOf("NAME").set

----------------------------------------------------------------------------
(* Further claims about m25 (checked under SpecM25).                       *)

\* C25: called with a gui_segments mapping that is not None but has no key
\* img_b64 (an empty mapping, for one), execute_metric raises and returns
\* no list, and what it raises is the precondition error (ValueError) it
\* raises for gui_segments = None.
C25_MissingKeyRaisesValueError ==
    (/\ M25Called
     /\ ~m25.gui_segments.isNone
     /\ ~HasKey(m25.gui_segments.dict, "img_b64"))
    => /\ m25.out.kind = "raise"
       /\ m25.out.value = <<>>
       /\ m25.out.error = "ValueError"
       /\ m25.out = M25_execute_metric(m25.gui_image, m25.gui_type, None,
                                        m25.gui_url)

\* The statements that leave gui_segments and the mapping it refers to as
\* they are: the test, the subscript read, the return and the raises.  A
\* store (gui_segments[k] = v, del, pop, update) is none of them.
M25ReadOnly ==
    {"test gui_segments", "subscript gui_segments", "return",
     "raise KeyError", "raise ValueError"}

\* C27: the result and the outcome (return or raise) of execute_metric
\* depend only on gui_segments: a call with the same gui_segments and any
\* other gui_image (a string that is no PNG included), gui_type or gui_url
\* has the same outcome; and the call leaves gui_segments unmodified.
C27_DependsOnSegmentsOnly ==
    M25Called
    => /\ \A gui_image \in GuiImages, gui_type \in GuiTypes,
             gui_url \in GuiUrls :
            /\ M25_execute_metric(gui_image, gui_type, m25.gui_segments,
                                  gui_url) = m25.out
            /\ M25Steps(gui_image, gui_type, m25.gui_segments, gui_url)
                    = m25.steps
       /\ \A i \in 1..Len(m25.steps) : m25.steps[i] \in M25ReadOnly
       /\ m25.out.kind = "return"
          => m25.out.value = <<Get(m25.gui_segments.dict, "img_b64")>>

\* A call with a gui_image that is no PNG, the mobile type and a URL has
\* returned the stored string.
C27_Witness ==
    /\ m25.out.kind = "return"
    /\ m25.gui_image \notin DecodablePNG
    /\ m25.gui_type = GUI_TYPE_MOBILE
    /\ m25.gui_url # "None"

----------------------------------------------------------------------------
(* A further claim about _padding (checked under SpecPadding).             *)

\* C26: for every image of width >= 1 and height >= 1, images of extreme
\* aspect ratio included, the floor-scaled dimension computed by _padding
\* (new_cols or new_rows) is at least 1, so the image is never resized to
\* an empty size and a non-empty region of the canvas is filled.
C26_ScaledSideAtLeastOne ==
    preprocess.out.kind # "none"
    => /\ preprocess.out.scaled[1] >= 1 /\ preprocess.out.scaled[2] >= 1
       /\ preprocess.out.kind = "array"
       /\ preprocess.out.new[1] >= 1 /\ preprocess.out.new[2] >= 1

----------------------------------------------------------------------------
(* The assertion of _postprocess_predictions (checked under SpecNTime).    *)

\* The calls of _postprocess_predictions that execute_metric makes.
PostprocessCalls ==
    {i \in 1..Len(RenderSteps) : RenderSteps[i].op = "postprocess"}

\* C28: the assertion that n_time is 0, 1 or 2 holds on every call made by
\* execute_metric, which calls _postprocess_predictions exactly three
\* times, with n_time 0, 1 and 2 and with blur and normalize left off; a
\* call with any other n_time fails at the assertion before any heatmap is
\* produced.
C28_NTimeAsserted ==
    /\ Cardinality(PostprocessCalls) = 3
    /\ {RenderSteps[i].n_time : i \in PostprocessCalls} = {0, 1, 2}
    /\ \A i \in PostprocessCalls :
        /\ NTimeAsserted(RenderSteps[i].n_time)
        /\ ~RenderSteps[i].blur /\ ~RenderSteps[i].normalize
    /\ postprocess.out.kind # "none"
       => IF postprocess.n_time \in {0, 1, 2}
          THEN /\ postprocess.out.kind = "array"
               /\ postprocess.out.shape[1] >= 1
          ELSE /\ postprocess.out.kind = "raise"
               /\ postprocess.out.error = "AssertionError"
               /\ postprocess.out.shape = <<0, 0>>

\* A call with n_time = -1, which as an index would select the last slice,
\* has failed at the assertion.
C28_Witness ==
    /\ postprocess.out.kind = "raise"
    /\ postprocess.n_time = -1

----------------------------------------------------------------------------
(* The database sink of server.main (checked under SpecMain).              *)

\* The position of a statement in the trace of main (0: it has not run).
RanAt(stmt) ==
    IF \E i \in 1..Len(server.trace) : server.trace[i] = stmt
    THEN CHOOSE i \in 1..Len(server.trace) : server.trace[i] = stmt
    ELSE 0

----------------------------------------------------------------------------
(* Screenshots.take (checked under SpecTake).                              *)

\* The positions of the calls of driver.get, in the order they were made.
GetCalls ==
    {j \in 1..Len(screenshots.calls) : screenshots.calls[j].op = "get"}

\* The URLs are loaded in file order, each after the window was sized for
\* it; when take returns every URL was loaded and quit was called once, as
\* the last call on the driver.
TakeInOrderAndQuitOnce ==
    /\ \A j \in GetCalls :
        LET n == Cardinality({k \in GetCalls : k <= j}) IN
        /\ n <= Len(screenshots.lines)
        /\ screenshots.calls[j].url = Strip(screenshots.lines[n])
        /\ j > 1
        /\ screenshots.calls[j - 1] =
                DriverCall("set_window_size", screenshots.calls[j].url)
    /\ screenshots.quits <= 1
    /\ screenshots.pc = "returned"
       => /\ Cardinality(GetCalls) = Len(screenshots.lines)
          /\ screenshots.quits = 1
          /\ screenshots.calls[Len(screenshots.calls)].op = "quit"

\* C30: take processes the input URLs in file order, sizes the browser
\* window before loading each URL and closes the browser (driver.quit)
\* exactly once after the last URL; on every exit path of take on which
\* the web driver was created, a failure while loading or capturing some
\* URL included, the browser has been closed.
C30_BrowserClosedOnEveryExit ==
    /\ TakeInOrderAndQuitOnce
    /\ (screenshots.pc \in {"returned", "raised"}
        /\ screenshots.driver # "None")
       => screenshots.driver = "closed"

====
